---- MODULE Spec2Model ----
(***************************************************************************)
(* Model of the V8 test runner core: TestCase (command assembly, variants, *)
(* timeout policy) and the inspector / webkit TestSuite (test discovery    *)
(* and the expected-output judgment).                                     *)
(*                                                                         *)
(* Python strings are modelled as sequences of one-character strings, so   *)
(* that strip(), startswith(), splitlines() ... are computed, not assumed. *)
(***************************************************************************)
EXTENDS Integers, Sequences, FiniteSets, TLC

VARIABLES
  suite_kind,      \* which testcfg.py the suite comes from: "inspector" | "webkit"
  expected_file,   \* text of <root>/<path>-expected.txt
  stdout,          \* test.output.stdout, raw text
  super_failure,   \* what testsuite.TestSuite.IsFailureOutput returned (webkit only)
  verdict,         \* return value of IsFailureOutput: "unset" before the call
  listdir_order,   \* by directory: its entries in the order os.listdir returns them
  tree_dirs,       \* directories under root, each the sequence of its path components
  tree_files,      \* files under root: [dir |-> path components, name |-> file name]
  tests,           \* <<>> before ListTests is called, then <<the list of test names>>
  is_windows,      \* utils.IsWindows()
  statusfile,      \* suite.GetStatusFileOutcomes(name, variant), by variant
  source,          \* what the directives of the test's source file parse to
  lists,           \* heap of Python list objects holding flags; the index is the identity
  caller_lists,    \* identities of the flag lists the variant generator holds
  cases,           \* the TestCase instances, in order of construction
  last_call,       \* the latest create_variant call: arguments, receiver before, result
  cmd              \* the latest get_command call: receiver, context, Command or exception

judge_vars == <<expected_file, stdout, super_failure, verdict>>
list_vars == <<listdir_order, tree_dirs, tree_files, tests>>
case_vars == <<is_windows, statusfile, source, lists, caller_lists, cases, last_call, cmd>>
vars == <<suite_kind, judge_vars, list_vars, case_vars>>

(***************************************************************************)
(* Bounds of the model.                                                    *)
(***************************************************************************)
MaxStdoutLines == 3
MaxExpectedLines == 2
MaxStressLines == 8
MaxNoiseLines == 3
MaxDirs == 3
MaxFiles == 2
MaxDepth == 2
MaxCases == 3
MaxCallerLists == 2
MaxCmdCases == 2
MaxCmdCallerLists == 1

(***************************************************************************)
(* Python str primitives.                                                  *)
(***************************************************************************)
NL == "\n"
CR == "\r"

\* the vertical tab character '\x0b'
VT == ""

\* string.whitespace as seen by str.strip()
Whitespace == {" ", "\t", "\n", "\r", VT, "\f"}

RECURSIVE LStrip(_)
LStrip(s) ==
  IF s = <<>> THEN s
  ELSE IF Head(s) \in Whitespace THEN LStrip(Tail(s)) ELSE s

RECURSIVE RStrip(_)
RStrip(s) ==
  IF s = <<>> THEN s
  ELSE IF s[Len(s)] \in Whitespace THEN RStrip(SubSeq(s, 1, Len(s) - 1)) ELSE s

\* str.strip()
Strip(s) == RStrip(LStrip(s))

\* str.startswith(prefix)
StartsWith(s, prefix) ==
  /\ Len(s) >= Len(prefix)
  /\ SubSeq(s, 1, Len(prefix)) = prefix

\* str.endswith(suffix)
EndsWith(s, suffix) ==
  /\ Len(s) >= Len(suffix)
  /\ SubSeq(s, Len(s) - Len(suffix) + 1, Len(s)) = suffix

\* sub in s
Contains(s, sub) ==
  \E i \in 1..(Len(s) - Len(sub) + 1) : SubSeq(s, i, i + Len(sub) - 1) = sub

\* str.splitlines(): lines end at \n, \r or \r\n, terminators dropped, no
\* trailing empty line.
RECURSIVE SplitLinesFrom(_, _, _)
SplitLinesFrom(text, cur, acc) ==
  IF text = <<>> THEN (IF cur = <<>> THEN acc ELSE Append(acc, cur))
  ELSE IF Head(text) = NL THEN SplitLinesFrom(Tail(text), <<>>, Append(acc, cur))
  ELSE IF Head(text) = CR THEN
    IF Len(text) >= 2 /\ text[2] = NL
      THEN SplitLinesFrom(Tail(Tail(text)), <<>>, Append(acc, cur))
      ELSE SplitLinesFrom(Tail(text), <<>>, Append(acc, cur))
  ELSE SplitLinesFrom(Tail(text), Append(cur, Head(text)), acc)

SplitLines(text) == SplitLinesFrom(text, <<>>, <<>>)

\* file.readlines(): lines end at \n, terminator kept.
RECURSIVE ReadLinesFrom(_, _, _)
ReadLinesFrom(text, cur, acc) ==
  IF text = <<>> THEN (IF cur = <<>> THEN acc ELSE Append(acc, cur))
  ELSE IF Head(text) = NL
    THEN ReadLinesFrom(Tail(text), <<>>, Append(acc, Append(cur, NL)))
    ELSE ReadLinesFrom(Tail(text), Append(cur, Head(text)), acc)

ReadLines(text) == ReadLinesFrom(text, <<>>, <<>>)

(***************************************************************************)
(* String literals of the suites.                                          *)
(***************************************************************************)
EqEq == <<"=", "=">>
StarStar == <<"*", "*">>
Android == <<"A", "N", "D", "R", "O", "I", "D">>
Hash == <<"#">>
IncrementalMarkingTag ==
  <<"[", "I", "n", "c", "r", "e", "m", "e", "n", "t", "a", "l",
    "M", "a", "r", "k", "i", "n", "g", "]">>
SlowAssertsWarning ==
  <<"W", "a", "r", "n", "i", "n", "g", ":", " ", "u", "n", "k", "n", "o", "w", "n",
    " ", "f", "l", "a", "g", " ", "-", "-", "e", "n", "a", "b", "l", "e", "-",
    "s", "l", "o", "w", "-", "a", "s", "s", "e", "r", "t", "s", ".">>
TryHelp ==
  <<"T", "r", "y", " ", "-", "-", "h", "e", "l", "p", " ", "f", "o", "r", " ",
    "o", "p", "t", "i", "o", "n", "s">>

(***************************************************************************)
(* TestSuite._IgnoreLine, per suite.                                       *)
(***************************************************************************)
IgnoreLineNoStars(kind, string) ==
  IF string = <<>> THEN TRUE
  ELSE \/ StartsWith(string, EqEq)
       \/ StartsWith(string, Android)
       \/ (kind = "webkit" /\ Contains(string, IncrementalMarkingTag))
       \/ string = SlowAssertsWarning
       \/ string = TryHelp

IgnoreLine(kind, string) ==
  IF string = <<>> THEN TRUE
  ELSE \/ StartsWith(string, EqEq)
       \/ StartsWith(string, StarStar)
       \/ StartsWith(string, Android)
       \/ (kind = "webkit" /\ Contains(string, IncrementalMarkingTag))
       \/ string = SlowAssertsWarning
       \/ string = TryHelp

\* ExpIterator(): the expected lines that are compared.
RECURSIVE ExpIteratorOf(_, _)
ExpIteratorOf(kind, lines) ==
  IF lines = <<>> THEN <<>>
  ELSE LET line == Head(lines)
           skip == \/ (kind = "webkit" /\ StartsWith(line, Hash))
                   \/ Strip(line) = <<>>
       IN IF skip THEN ExpIteratorOf(kind, Tail(lines))
          ELSE <<Strip(line)>> \o ExpIteratorOf(kind, Tail(lines))

\* ActIterator(lines): the actual lines of one block that are compared.
RECURSIVE ActIterator(_, _)
ActIterator(kind, lines) ==
  IF lines = <<>> THEN <<>>
  ELSE IF IgnoreLine(kind, Strip(Head(lines)))
    THEN ActIterator(kind, Tail(lines))
    ELSE <<Strip(Head(lines))>> \o ActIterator(kind, Tail(lines))

\* A block iterator that also yields the lines before the first separator (not
\* what the code does).
RECURSIVE ActBlocksYieldingPreamble(_, _, _, _, _, _)
ActBlocksYieldingPreamble(kind, lines, index, start_index, found_eqeq, yielded) ==
  IF index > Len(lines)
    THEN IF ~found_eqeq THEN Append(yielded, ActIterator(kind, lines)) ELSE yielded
  ELSE IF StartsWith(lines[index], EqEq)
    THEN ActBlocksYieldingPreamble(kind, lines, index + 1, index + 1, TRUE,
           Append(yielded,
                  ActIterator(kind, SubSeq(lines, start_index, index - 1))))
  ELSE ActBlocksYieldingPreamble(kind, lines, index + 1, start_index, found_eqeq, yielded)

\* ActBlockIterator(): the sequence of blocks the generator yields.  index and
\* start_index are 1-based here (Python's index + 1).
RECURSIVE ActBlocksFrom(_, _, _, _, _, _)
ActBlocksFrom(kind, lines, index, start_index, found_eqeq, yielded) ==
  IF index > Len(lines)
    THEN IF ~found_eqeq THEN Append(yielded, ActIterator(kind, lines)) ELSE yielded
  ELSE IF StartsWith(lines[index], EqEq)
    THEN ActBlocksFrom(kind, lines, index + 1, index + 1, TRUE,
           IF ~found_eqeq THEN yielded
           ELSE Append(yielded,
                  ActIterator(kind, SubSeq(lines, start_index, index - 1))))
  ELSE ActBlocksFrom(kind, lines, index + 1, start_index, found_eqeq, yielded)

\* itertools.izip_longest(e, a, fillvalue=fill)
Izip(e, a, fill) ==
  [i \in 1..(IF Len(e) <= Len(a) THEN Len(e) ELSE Len(a)) |-> <<e[i], a[i]>>]

IzipLongest(e, a, fill) ==
  [i \in 1..(IF Len(e) >= Len(a) THEN Len(e) ELSE Len(a)) |->
     << IF i <= Len(e) THEN e[i] ELSE fill,
        IF i <= Len(a) THEN a[i] ELSE fill >>]

\* The inner for loop: True is returned at the first pair that differs.
BlockMismatch(exp, act) ==
  LET pairs == IzipLongest(exp, act, <<>>)
  IN \E i \in 1..Len(pairs) : pairs[i][1] # pairs[i][2]

\* The outer for loop with every yielded block compared (not what the code does).
CompareAllBlocks(exp, blocks) ==
  IF blocks = <<>> THEN "None"
  ELSE IF \E b \in 1..Len(blocks) : BlockMismatch(exp, blocks[b])
    THEN "True" ELSE "False"

\* The outer for loop: it returns inside its first iteration; with no block
\* yielded the function falls off its end and returns None.
CompareBlocks(exp, blocks) ==
  IF blocks = <<>> THEN "None"
  ELSE IF BlockMismatch(exp, blocks[1]) THEN "True" ELSE "False"

\* The body of IsFailureOutput once the fixture and stdout are split into lines.
\* super_fails is the result of the superclass check, which only the webkit
\* suite calls (before the fixture is opened).
JudgeLines(kind, super_fails, expected_lines, lines) ==
  IF kind = "webkit" /\ super_fails THEN "True"
  ELSE CompareBlocks(ExpIteratorOf(kind, expected_lines),
                     ActBlocksFrom(kind, lines, 1, 1, FALSE, <<>>))

\* TestSuite.IsFailureOutput(test)
IsFailureOutput(kind, super_fails, file_text, out_text) ==
  JudgeLines(kind, super_fails, ReadLines(file_text), SplitLines(out_text))

(***************************************************************************)
(* Judgment as a state machine: the fixture file and the captured output   *)
(* are written line by line, then the suite judges the finished run.       *)
(***************************************************************************)
SuiteKinds == {"inspector", "webkit"}

\* print of one chunk of text by the test process
EmitStdout(chunk) ==
  /\ verdict = "unset"
  /\ stdout' = stdout \o chunk
  /\ UNCHANGED <<suite_kind, expected_file, super_failure, verdict, list_vars, case_vars>>

\* one more chunk of the fixture <path>-expected.txt
WriteExpected(chunk) ==
  /\ verdict = "unset"
  /\ expected_file' = expected_file \o chunk
  /\ UNCHANGED <<suite_kind, stdout, super_failure, verdict, list_vars, case_vars>>

\* the runner calls suite.IsFailureOutput(test)
Judge ==
  /\ verdict = "unset"
  /\ \E sf \in (IF suite_kind = "webkit" THEN BOOLEAN ELSE {FALSE}) :
       /\ super_failure' = sf
       /\ verdict' = IsFailureOutput(suite_kind, sf, expected_file, stdout)
  /\ UNCHANGED <<suite_kind, expected_file, stdout, list_vars, case_vars>>

JudgeInit ==
  /\ suite_kind \in SuiteKinds
  /\ expected_file = <<>> /\ stdout = <<>> /\ super_failure = FALSE /\ verdict = "unset"
  /\ listdir_order = [p \in {<<>>} |-> <<>>] /\ tree_dirs = {} /\ tree_files = {} /\ tests = <<>>
  /\ is_windows = FALSE /\ statusfile = <<>> /\ source = <<>> /\ lists = <<>>
  /\ caller_lists = {} /\ cases = <<>> /\ last_call = [called |-> FALSE] /\ cmd = [called |-> FALSE]

\* Lines of the noise specification (raw lines, no terminator).
LineA == <<"a">>
LineB == <<" ", "b", " ">>
LineBlank == <<" ">>
LineHashC == <<"#", "c">>
LineStars == <<"*", "*", "w">>
LineSep == <<"=", "=", "1">>

StdoutLines == {LineA, LineB, <<>>, LineSep, LineStars, LineHashC}
ExpectedLines == {LineA, LineB, LineBlank, LineHashC}

NextJudge ==
  \/ \E l \in StdoutLines :
       /\ Len(SplitLines(stdout)) < MaxStdoutLines
       /\ EmitStdout(Append(l, NL))
  \/ \E l \in ExpectedLines :
       /\ Len(ReadLines(expected_file)) < MaxExpectedLines
       /\ WriteExpected(Append(l, NL))
  \/ Judge

SpecJudge ==
  JudgeInit
    /\ [][NextJudge]_vars

\* Outputs with noise: few kinds of lines, so that every insertion of a
\* noise line can be tried on every output.
NoiseStdoutLines == {LineA, LineSep, LineStars}
NoiseExpectedLines == {LineA, LineB}

NextNoise ==
  \/ \E l \in NoiseStdoutLines :
       /\ Len(SplitLines(stdout)) < MaxNoiseLines
       /\ EmitStdout(Append(l, NL))
  \/ \E l \in NoiseExpectedLines :
       /\ Len(ReadLines(expected_file)) < MaxExpectedLines
       /\ WriteExpected(Append(l, NL))
  \/ Judge

SpecNoise ==
  JudgeInit
    /\ [][NextNoise]_vars

(***************************************************************************)
(* Stress-run outputs: the process prints whole chunks (a separator, a     *)
(* junk line, the two-line block a/b).                                     *)
(***************************************************************************)
ChunkSep == <<"=", "=", NL>>
ChunkJunk == <<"J", "U", "N", "K", NL>>
ChunkAB == <<"a", NL, "b", NL>>

StressChunks == {ChunkSep, ChunkJunk, ChunkAB}
StressExpected == {ChunkAB, ChunkJunk}

NextStress ==
  \/ \E c \in StressChunks :
       /\ Len(SplitLines(stdout)) + Len(SplitLines(c)) <= MaxStressLines
       /\ EmitStdout(c)
  \/ \E c \in StressExpected :
       /\ Len(ReadLines(expected_file)) + Len(ReadLines(c)) <= MaxExpectedLines
       /\ WriteExpected(c)
  \/ Judge

SpecStress ==
  JudgeInit
    /\ [][NextStress]_vars

(***************************************************************************)
(* Vocabulary of the judgment properties.                                  *)
(***************************************************************************)
OutLines == SplitLines(stdout)
Judged == verdict # "unset"
\* the comparison was reached (the webkit superclass check did not short-circuit)
Compared == Judged /\ ~(suite_kind = "webkit" /\ super_failure)

IsSeparator(line) == StartsWith(line, EqEq)
SeparatorIndexes(lines) == {i \in 1..Len(lines) : IsSeparator(lines[i])}
NthSeparator(lines, n) ==
  CHOOSE i \in SeparatorIndexes(lines) :
    Cardinality({j \in SeparatorIndexes(lines) : j <= i}) = n

RECURSIVE JoinLines(_)
JoinLines(lines) ==
  IF lines = <<>> THEN <<>> ELSE Head(lines) \o <<NL>> \o JoinLines(Tail(lines))

InsertAt(lines, pos, line) ==
  SubSeq(lines, 1, pos) \o <<line>> \o SubSeq(lines, pos + 1, Len(lines))

RECURSIVE MapStrip(_)
MapStrip(lines) ==
  IF lines = <<>> THEN <<>> ELSE <<Strip(Head(lines))>> \o MapStrip(Tail(lines))

\* The expected lines as the specification describes them: stripped, blank
\* lines removed, and in webkit the lines beginning with '#' removed.
FilteredExpected ==
  LET Kept(line) == /\ Strip(line) # <<>>
                    /\ ~(suite_kind = "webkit" /\ line # <<>> /\ line[1] = "#")
  IN MapStrip(SelectSeq(ReadLines(expected_file), Kept))

\* The actual lines as the specification describes them: stripped, the lines
\* dropped by _IgnoreLine removed.
FilteredActual(lines) ==
  LET Kept(line) == ~IgnoreLine(suite_kind, line)
  IN SelectSeq(MapStrip(lines), Kept)

IsStrictPrefix(s, t) == Len(s) < Len(t) /\ SubSeq(t, 1, Len(s)) = s

\* C7: with no separator line in stdout (and no superclass failure in webkit)
\* IsFailureOutput returns False exactly when the filtered expected lines and
\* the filtered actual lines are the same sequence, and True otherwise; a
\* strict prefix is a failure.
C7_NoSeparatorVerdict ==
  (Compared /\ SeparatorIndexes(OutLines) = {}) =>
     /\ verdict \in {"True", "False"}
     /\ (verdict = "False") <=> (FilteredExpected = FilteredActual(OutLines))

C7_Witness ==
  /\ Compared
  /\ SeparatorIndexes(OutLines) = {}
  /\ FilteredExpected # <<>>
  /\ IsStrictPrefix(FilteredExpected, FilteredActual(OutLines))
  /\ Len(FilteredActual(OutLines)) < Len(OutLines)
  /\ verdict = "True"

\* C6 (as claimed): with exactly one separator line in stdout, the lines after
\* it are compared with the filtered expected lines and the result is the
\* boolean True whenever they differ.
C6_TrailingBlockCompared ==
  (Compared /\ Cardinality(SeparatorIndexes(OutLines)) = 1) =>
     LET sep == NthSeparator(OutLines, 1)
         trailing == SubSeq(OutLines, sep + 1, Len(OutLines))
     IN /\ verdict \in {"True", "False"}
        /\ (FilteredActual(trailing) # FilteredExpected) => verdict = "True"

\* Lines that _IgnoreLine drops, one or more of each kind.
NoiseLines ==
  { <<>>, <<"\t", " ">>, <<VT>>, <<VT, "*", "*", "\f">>,
    LineStars, <<" ", "*", "*">>,
    Android \o <<" ", "x">>,
    SlowAssertsWarning, <<" ">> \o TryHelp \o <<" ">>,
    LineSep, <<" ", "=", "=">> }
  \cup (IF suite_kind = "webkit"
          THEN {<<"x">> \o IncrementalMarkingTag \o <<"y">>} ELSE {})

IsFailure(v) == v = "True"

\* C8 (as claimed): inserting any line that _IgnoreLine drops at any position
\* of stdout leaves the verdict unchanged: a passing output stays passing and
\* a failing one failing.
C8_NoiseNeverChangesVerdict ==
  Judged =>
    LET lines == OutLines
        exp == ReadLines(expected_file)
    IN \A line \in NoiseLines : \A pos \in 0..Len(lines) :
         IsFailure(JudgeLines(suite_kind, super_failure, exp, InsertAt(lines, pos, line)))
           = IsFailure(verdict)

\* C8 (amended): inserting a line that _IgnoreLine drops and that is not a
\* separator (the raw line does not start with '==') at any position of
\* stdout leaves the value returned by IsFailureOutput unchanged.
C8_NonSeparatorNoiseKeepsVerdict ==
  Judged =>
    LET lines == OutLines
        exp == ReadLines(expected_file)
    IN \A line \in {l \in NoiseLines : ~IsSeparator(l)} : \A pos \in 0..Len(lines) :
         JudgeLines(suite_kind, super_failure, exp, InsertAt(lines, pos, line)) = verdict

C8_Witness ==
  /\ verdict = "False"
  /\ FilteredExpected # <<>>
  /\ \E i \in 1..Len(OutLines) : OutLines[i] = LineStars

\* The shape of the stress example: separator, junk lines, separator, block
\* B, separator, block B again.
StressShape ==
  /\ Cardinality(SeparatorIndexes(OutLines)) = 3
  /\ NthSeparator(OutLines, 1) = 1
  /\ NthSeparator(OutLines, 2) > 2
  /\ LET s2 == NthSeparator(OutLines, 2)
         s3 == NthSeparator(OutLines, 3)
     IN /\ s3 > s2 + 1
        /\ SubSeq(OutLines, s2 + 1, s3 - 1) = SubSeq(OutLines, s3 + 1, Len(OutLines))
StressJunk == SubSeq(OutLines, 2, NthSeparator(OutLines, 2) - 1)
StressBlock ==
  SubSeq(OutLines, NthSeparator(OutLines, 2) + 1, NthSeparator(OutLines, 3) - 1)

\* C5 (as claimed): on the stress shape the result is pass whenever block B
\* after filtering equals the filtered expected lines.
C5_SecondSegmentCompared ==
  (Compared /\ StressShape /\ FilteredActual(StressBlock) = FilteredExpected)
     => verdict = "False"

\* C5 (amended): on the stress shape the block compared is the one between
\* the first and the second separator: the result is pass exactly when those
\* lines after filtering equal the filtered expected lines, and failure
\* otherwise; block B is not compared.
C5_FirstSegmentCompared ==
  (Compared /\ StressShape) =>
     /\ verdict \in {"True", "False"}
     /\ (verdict = "False") <=> (FilteredActual(StressJunk) = FilteredExpected)

C5_Witness ==
  /\ suite_kind = "inspector"
  /\ stdout = ChunkSep \o ChunkJunk \o ChunkSep \o ChunkAB \o ChunkSep \o ChunkAB
  /\ expected_file = ChunkAB
  /\ verdict = "True"

\* C10: once stdout holds the separator that closes the first block, the
\* verdict is the verdict of the output cut after that separator: the later
\* blocks never change it.
C10_OnlyFirstBlockDecides ==
  (Judged /\ Cardinality(SeparatorIndexes(OutLines)) >= 2) =>
     verdict = IsFailureOutput(suite_kind, super_failure, expected_file,
                 JoinLines(SubSeq(OutLines, 1, NthSeparator(OutLines, 2))))

C10_Witness ==
  /\ Compared
  /\ verdict = "False"
  /\ FilteredExpected # <<>>
  /\ LET blocks == ActBlocksFrom(suite_kind, OutLines, 1, 1, FALSE, <<>>)
     IN /\ Len(blocks) >= 2
        /\ blocks[2] # blocks[1]
        /\ BlockMismatch(FilteredExpected, blocks[2])

(***************************************************************************)
(* Test discovery: TestSuite.ListTests over os.walk.                       *)
(***************************************************************************)
Sep == <<"/">>
PROTOCOL_TEST_JS ==
  <<"p", "r", "o", "t", "o", "c", "o", "l", "-", "t", "e", "s", "t", ".", "j", "s">>
RESOURCES_FOLDER == <<"r", "e", "s", "o", "u", "r", "c", "e", "s">>
DotJs == <<".", "j", "s">>
Dot == <<".">>

\* self.root of the suite
Root == <<"/", "v">>

\* The characters of the modelled names, in code point order.
CodePoints ==
  <<"-", ".", "/", "a", "b", "c", "d", "e", "f", "g", "h", "i", "j", "k", "l",
    "m", "n", "o", "p", "q", "r", "s", "t", "u", "v", "w", "x", "y", "z">>
Ord(c) == CHOOSE i \in 1..Len(CodePoints) : CodePoints[i] = c

\* a < b for Python str
RECURSIVE StrLess(_, _)
StrLess(a, b) ==
  IF b = <<>> THEN FALSE
  ELSE IF a = <<>> THEN TRUE
  ELSE IF Head(a) = Head(b) THEN StrLess(Tail(a), Tail(b))
  ELSE Ord(Head(a)) < Ord(Head(b))

\* os.path.join(a, b) for a relative b
PathJoin(a, b) == a \o Sep \o b

\* the directory string os.walk passes for a directory under root
RECURSIVE DirName(_)
DirName(path) ==
  IF path = <<>> THEN Root
  ELSE PathJoin(DirName(SubSeq(path, 1, Len(path) - 1)), path[Len(path)])

\* os.listdir(top): the names in a directory, in the order the file system
\* gives them (any order)
Listed(path) == listdir_order[path]

\* what os.walk hands out for one directory: (dirs, files), each in the
\* order of os.listdir
WalkDirs(path) ==
  LET IsDir(n) == Append(path, n) \in tree_dirs
  IN SelectSeq(Listed(path), IsDir)
WalkFiles(path) ==
  LET IsFile(n) == [dir |-> path, name |-> n] \in tree_files
  IN SelectSeq(Listed(path), IsFile)

NotDotted(x) == ~StartsWith(x, Dot)
NotResources(x) == x # RESOURCES_FOLDER

\* fullpath[len(self.root) + 1 : -3]
TestName(dirname, filename) ==
  LET fullpath == PathJoin(dirname, filename)
  IN SubSeq(fullpath, Len(Root) + 2, Len(fullpath) - 3)

\* the inner loop over the files of one directory
RECURSIVE TestsOfFiles(_, _, _)
TestsOfFiles(kind, dirname, files) ==
  IF files = <<>> THEN <<>>
  ELSE LET filename == Head(files)
           take == /\ EndsWith(filename, DotJs)
                   /\ (kind = "inspector" => filename # PROTOCOL_TEST_JS)
       IN (IF take THEN <<TestName(dirname, filename)>> ELSE <<>>)
            \o TestsOfFiles(kind, dirname, Tail(files))

\* One iteration of the os.walk loop followed by os.walk's descent into what
\* the loop body left in dirs.
RECURSIVE Walk(_, _)
RECURSIVE WalkEach(_, _, _)
Walk(kind, path) ==
  LET dirname == DirName(path)
      undotted == SelectSeq(WalkDirs(path), NotDotted)
  IN IF kind = "inspector"
       THEN IF EndsWith(dirname, Sep \o RESOURCES_FOLDER)
              THEN WalkEach(kind, path, undotted)
              ELSE TestsOfFiles(kind, dirname, SortSeq(WalkFiles(path), StrLess))
                     \o WalkEach(kind, path, SortSeq(undotted, StrLess))
       ELSE LET kept == SelectSeq(undotted, NotResources)
            IN TestsOfFiles(kind, dirname, SortSeq(WalkFiles(path), StrLess))
                 \o WalkEach(kind, path, SortSeq(kept, StrLess))
WalkEach(kind, path, names) ==
  IF names = <<>> THEN <<>>
  ELSE Walk(kind, Append(path, Head(names)))
         \o WalkEach(kind, path, Tail(names))

\* TestSuite.ListTests(context): the test names in the order of the result
ListTests(kind) == Walk(kind, <<>>)

DirNames == {RESOURCES_FOLDER, <<".", "h">>, <<"s", "u", "b">>}
FileNames == {<<"t", ".", "j", "s">>, PROTOCOL_TEST_JS, <<"n", ".", "t", "x", "t">>}

\* mkdir <parent>/<name>: the new entry lands at any position of the parent's
\* listing
Mkdir(parent, name, pos) ==
  /\ tests = <<>>
  /\ Append(parent, name) \notin tree_dirs
  /\ tree_dirs' = tree_dirs \cup {Append(parent, name)}
  /\ listdir_order' =
       [p \in DOMAIN listdir_order \cup {Append(parent, name)} |->
          IF p = parent THEN InsertAt(listdir_order[parent], pos, name)
          ELSE IF p = Append(parent, name) THEN <<>>
          ELSE listdir_order[p]]
  /\ UNCHANGED <<suite_kind, tree_files, tests, judge_vars, case_vars>>

\* create the file <dir>/<name>, at any position of the directory's listing
CreateFile(dir, name, pos) ==
  /\ tests = <<>>
  /\ [dir |-> dir, name |-> name] \notin tree_files
  /\ tree_files' = tree_files \cup {[dir |-> dir, name |-> name]}
  /\ listdir_order' =
       [listdir_order EXCEPT ![dir] = InsertAt(listdir_order[dir], pos, name)]
  /\ UNCHANGED <<suite_kind, tree_dirs, tests, judge_vars, case_vars>>

\* suite.ListTests(context)
ListTestsCall ==
  /\ tests = <<>>
  /\ tests' = <<ListTests(suite_kind)>>
  /\ UNCHANGED <<suite_kind, listdir_order, tree_dirs, tree_files, judge_vars, case_vars>>

ListInit ==
  /\ suite_kind \in SuiteKinds
  /\ listdir_order = [p \in {<<>>} |-> <<>>]
  /\ tree_dirs = {} /\ tree_files = {} /\ tests = <<>>
  /\ expected_file = <<>> /\ stdout = <<>> /\ super_failure = FALSE /\ verdict = "unset"
  /\ is_windows = FALSE /\ statusfile = <<>> /\ source = <<>> /\ lists = <<>>
  /\ caller_lists = {} /\ cases = <<>> /\ last_call = [called |-> FALSE] /\ cmd = [called |-> FALSE]

NextList ==
  \/ \E parent \in tree_dirs \cup {<<>>} : \E name \in DirNames :
       /\ Cardinality(tree_dirs) < MaxDirs
       /\ Len(parent) < MaxDepth
       /\ \E pos \in 0..Len(listdir_order[parent]) : Mkdir(parent, name, pos)
  \/ \E dir \in tree_dirs \cup {<<>>} : \E name \in FileNames :
       /\ Cardinality(tree_files) < MaxFiles
       /\ \E pos \in 0..Len(listdir_order[dir]) : CreateFile(dir, name, pos)
  \/ ListTestsCall

SpecList ==
  ListInit
    /\ [][NextList]_vars

\* the name ListTests gives the test of a file
TestNameOfFile(f) == TestName(DirName(f.dir), f.name)
ListingDone == tests # <<>>
IsListed(f) == \E i \in 1..Len(tests[1]) : tests[1][i] = TestNameOfFile(f)
UnderExcluded(f) ==
  \E i \in 1..Len(f.dir) : f.dir[i] = RESOURCES_FOLDER \/ StartsWith(f.dir[i], Dot)

\* C9 (as claimed): ListTests returns no test whose source file lies anywhere
\* beneath a directory named 'resources' or beneath a directory whose name
\* starts with '.'.
C9_ExcludedDirsSkipped ==
  ListingDone => \A f \in tree_files : UnderExcluded(f) => ~IsListed(f)

(***************************************************************************)
(* TestCase: variants, command assembly, timeout.                          *)
(***************************************************************************)
StressOpt == <<"-", "-", "s", "t", "r", "e", "s", "s", "-", "o", "p", "t">>
NoEnableVfp3 ==
  <<"-", "-", "n", "o", "e", "n", "a", "b", "l", "e", "-", "v", "f", "p", "3">>
TestFlag == <<"-", "-", "t", "e", "s", "t">>
IsolateFlag == <<"-", "-", "i", "s", "o", "l", "a", "t", "e">>
RandomSeedPrefix ==
  <<"-", "-", "r", "a", "n", "d", "o", "m", "-", "s", "e", "e", "d", "=">>
DashDash == <<"-", "-">>
D8 == <<"d", "8">>
InspectorTest ==
  <<"i", "n", "s", "p", "e", "c", "t", "o", "r", "-", "t", "e", "s", "t">>
DotExe == <<".", "e", "x", "e">>
StandalonePre ==
  <<"r", "e", "s", "o", "u", "r", "c", "e", "s", "/", "s", "t", "a", "n", "d",
    "a", "l", "o", "n", "e", "-", "p", "r", "e", ".", "j", "s">>
StandalonePost ==
  <<"r", "e", "s", "o", "u", "r", "c", "e", "s", "/", "s", "t", "a", "n", "d",
    "a", "l", "o", "n", "e", "-", "p", "o", "s", "t", ".", "j", "s">>
DashE == <<"-", "e">>
TestFileNameEq ==
  <<"T", "E", "S", "T", "_", "F", "I", "L", "E", "_", "N", "A", "M", "E", "=">>
Quote == <<"\"">>
Backslash == <<"\\">>

\* the flags and outcomes the runs are made of
FlagExtra == <<"-", "-", "x">>
FlagVariant == <<"-", "-", "v">>
FlagStatus == <<"-", "-", "s">>
FlagMode == <<"-", "-", "m">>
FlagSource == <<"-", "-", "c">>
OutcomePass == <<"P", "A", "S", "S">>
OutcomeDash == <<"-", "q">>

\* test.path of the modelled test and ctx.shell_dir
TestPath == <<"t">>
ShellDir == <<"/", "o">>

Digits == <<"0", "1", "2", "3", "4", "5", "6", "7", "8", "9">>
\* '%s' % n for an int n
RECURSIVE DecStr(_)
DecStr(n) ==
  IF n < 0 THEN <<"-">> \o DecStr(-n)
  ELSE IF n < 10 THEN <<Digits[n + 1]>>
  ELSE DecStr(n \div 10) \o <<Digits[(n % 10) + 1]>>

\* s.replace("\\", "\\\\")
RECURSIVE EscapeBackslashes(_)
EscapeBackslashes(str) ==
  IF str = <<>> THEN <<>>
  ELSE (IF <<Head(str)>> = Backslash THEN Backslash \o Backslash ELSE <<Head(str)>>)
         \o EscapeBackslashes(Tail(str))

Range(seq) == {seq[i] : i \in 1..Len(seq)}

\* TestCase._get_suffix
GetSuffix == DotJs

\* os.path.join(self.suite.root, self.path + self._get_suffix())
TestFileName == PathJoin(Root, TestPath \o GetSuffix)

\* TestCase.__init__ (and the subclasses'): a new instance with a list object
\* of its own for variant_flags.
NewTestCase(ls, cls) ==
  [ lists |-> Append(ls, <<>>),
    obj |-> [ cls |-> cls, variant |-> "None", variant_flags |-> Len(ls) + 1,
              source_flags |-> "None", source_files |-> "None" ] ]

\* TestCase._copy, with the subclasses' overrides
Copy(ls, self) ==
  LET made == NewTestCase(ls, self.cls)
  IN [ lists |-> made.lists,
       obj |-> IF self.cls = "inspector"
                 THEN [made.obj EXCEPT !.source_flags = self.source_flags]
               ELSE IF self.cls = "webkit"
                 THEN [made.obj EXCEPT !.source_files = self.source_files,
                                       !.source_flags = self.source_flags]
               ELSE made.obj ]

\* create_variant as it would be with the flags added to the receiver's list
CreateVariantInPlace(ls, self, variant, flags) ==
  LET c == Copy(ls, self)
  IN [ lists |-> [c.lists EXCEPT ![self.variant_flags] = @ \o ls[flags]],
       obj |-> [c.obj EXCEPT !.variant_flags = self.variant_flags,
                             !.variant = variant] ]

\* TestCase.create_variant(variant, flags); flags is the identity of the list
\* object passed in.
CreateVariantOn(ls, self, variant, flags) ==
  LET c == Copy(ls, self)
  IN IF ls[self.variant_flags] = <<>>
       THEN [ lists |-> c.lists,
              obj |-> [c.obj EXCEPT !.variant_flags = flags, !.variant = variant] ]
       ELSE [ lists |-> Append(c.lists, ls[self.variant_flags] \o ls[flags]),
              obj |-> [c.obj EXCEPT !.variant_flags = Len(c.lists) + 1,
                                    !.variant = variant] ]

\* webkit TestCase._parse_source_files, from what the two patterns matched.
\* normpath(join(root, '..', '..', f)) is '/' + f for the one-level Root.
ParseSourceFiles(src) ==
  LET files == [i \in 1..Len(src.files_list) |-> Sep \o src.files_list[i]]
      env == <<DashE, TestFileNameEq \o Quote \o EscapeBackslashes(TestFileName) \o Quote>>
  IN (IF src.self_script THEN env \o files ELSE files)
       \o <<PathJoin(Root, StandalonePre), TestFileName, PathJoin(Root, StandalonePost)>>

\* TestCase.precompute, with the subclasses' overrides
PrecomputeOn(self, src) ==
  IF self.cls = "inspector" THEN [self EXCEPT !.source_flags = src.flags]
  ELSE IF self.cls = "webkit"
    THEN [self EXCEPT !.source_files = ParseSourceFiles(src), !.source_flags = src.flags]
  ELSE self

\* _get_files_params
GetFilesParams(self, ctx) ==
  IF self.cls = "inspector"
    THEN <<PathJoin(Root, PROTOCOL_TEST_JS), PathJoin(Root, TestPath \o GetSuffix)>>
  ELSE IF self.cls = "webkit"
    THEN IF ctx.isolates
           THEN self.source_files \o <<IsolateFlag>> \o self.source_files
           ELSE self.source_files
  ELSE <<>>

\* _get_extra_flags
GetExtraFlags(ctx) == ctx.extra_flags

\* _get_variant_flags
GetVariantFlags(ls, self) == ls[self.variant_flags]

\* _get_statusfile_flags
RECURSIVE FlagsOfOutcomes(_)
FlagsOfOutcomes(outcomes) ==
  IF outcomes = <<>> THEN <<>>
  ELSE (IF StartsWith(Head(outcomes), DashDash) THEN <<Head(outcomes)>> ELSE <<>>)
         \o FlagsOfOutcomes(Tail(outcomes))

GetStatusfileFlags(sf, self) == FlagsOfOutcomes(sf[self.variant])

\* _get_mode_flags
GetModeFlags(ctx) == ctx.mode_flags

\* _get_source_flags
GetSourceFlags(self) == IF self.cls = "base" THEN <<>> ELSE self.source_flags

\* _get_suite_flags
GetSuiteFlags(self, ctx) == <<>>

\* _get_cmd_params with the variant flags put first
GetCmdParamsVariantFirst(ls, sf, self, ctx) ==
  GetVariantFlags(ls, self) \o
  GetFilesParams(self, ctx) \o
  GetExtraFlags(ctx) \o
  GetStatusfileFlags(sf, self) \o
  GetModeFlags(ctx) \o
  GetSourceFlags(self) \o
  GetSuiteFlags(self, ctx)

\* _get_cmd_params
GetCmdParams(ls, sf, self, ctx) ==
  GetFilesParams(self, ctx) \o
  GetExtraFlags(ctx) \o
  GetVariantFlags(ls, self) \o
  GetStatusfileFlags(sf, self) \o
  GetModeFlags(ctx) \o
  GetSourceFlags(self) \o
  GetSuiteFlags(self, ctx)

\* _get_shell
GetShell(self) == IF self.cls = "inspector" THEN InspectorTest ELSE D8

\* _get_shell_with_flags
GetShellWithFlags(self, ctx, windows) ==
  LET shell == GetShell(self)
  IN [ shell |-> IF windows THEN shell \o DotExe ELSE shell,
       shell_flags |->
         (IF shell = D8 THEN <<TestFlag>> ELSE <<>>)
           \o (IF ctx.random_seed # 0
                 THEN <<RandomSeedPrefix \o DecStr(ctx.random_seed)>> ELSE <<>>) ]

\* _get_timeout with the second test chained to the first by elif
GetTimeoutElif(params, timeout) ==
  LET t1 == IF StressOpt \in Range(params) THEN timeout * 4
            ELSE IF NoEnableVfp3 \in Range(params) THEN timeout * 2
            ELSE timeout
  IN t1 * 2

\* _get_timeout
GetTimeout(params, timeout) ==
  LET t1 == IF StressOpt \in Range(params) THEN timeout * 4 ELSE timeout
      t2 == IF NoEnableVfp3 \in Range(params) THEN t1 * 2 ELSE t1
  IN t2 * 2

\* Whether building the parameters raises TypeError: a subclass instance that
\* was never precomputed concatenates None.
ParamsRaise(self) == self.cls # "base" /\ self.source_flags = "None"

\* get_command followed by _create_cmd: the fields of the Command
GetCommandOn(ls, sf, self, ctx, windows) ==
  IF ParamsRaise(self) THEN [raised |-> "TypeError"]
  ELSE LET params == GetCmdParams(ls, sf, self, ctx)
           sh == GetShellWithFlags(self, ctx, windows)
       IN [ raised |-> "None",
            cmd_prefix |-> ctx.command_prefix,
            shell |-> PathJoin(ctx.shell_dir, sh.shell),
            args |-> sh.shell_flags \o params,
            env |-> <<>>,
            timeout |-> GetTimeout(params, ctx.timeout),
            verbose |-> ctx.verbose ]

Classes == {"base", "inspector", "webkit"}
VariantNames == {"x", "y"}
AnyVariant == {"None"} \cup VariantNames

\* the contexts get_command is called with
Contexts ==
  { c \in [ extra_flags : {<<FlagExtra>>, <<StressOpt, FlagExtra>>},
            mode_flags : {<<FlagMode>>, <<FlagMode, NoEnableVfp3>>},
            isolates : BOOLEAN,
            random_seed : {0, 12},
            timeout : {10},
            shell_dir : {ShellDir},
            command_prefix : {<<>>},
            verbose : {FALSE} ] : c.isolates = (c.random_seed = 0) }

\* status files and source files the suite is set up with
StatusFileA ==
  [v \in AnyVariant |->
     IF v = "None" THEN <<OutcomePass>>
     ELSE IF v = "x" THEN <<FlagStatus, OutcomePass>>
     ELSE <<OutcomeDash, StressOpt, FlagStatus>>]
StatusFileB ==
  [v \in AnyVariant |-> IF v = "None" THEN <<FlagStatus, NoEnableVfp3>> ELSE <<>>]
StatusFiles == {StatusFileA, StatusFileB}
SourceFiles ==
  { [flags |-> <<FlagSource>>, files_list |-> <<>>, self_script |-> FALSE],
    [flags |-> <<>>, files_list |-> << <<"f", ".", "j", "s">> >>, self_script |-> TRUE] }

\* flag lists the variant generator builds
CallerFlagLists == { <<FlagVariant>>, <<StressOpt>>, <<>> }

\* the variant generator builds a list of flags
NewFlagList(content) ==
  /\ lists' = Append(lists, content)
  /\ caller_lists' = caller_lists \cup {Len(lists) + 1}
  /\ UNCHANGED <<suite_kind, is_windows, statusfile, source, cases, last_call, cmd,
                 judge_vars, list_vars>>

\* cases[i].precompute()
Precompute(i) ==
  /\ cases' = [cases EXCEPT ![i] = PrecomputeOn(cases[i], source)]
  /\ UNCHANGED <<suite_kind, is_windows, statusfile, source, lists, caller_lists,
                 last_call, cmd, judge_vars, list_vars>>

\* cases[i].create_variant(variant, flags)
CreateVariant(i, variant, flags) ==
  LET made == CreateVariantOn(lists, cases[i], variant, flags)
  IN /\ lists' = made.lists
     /\ cases' = Append(cases, made.obj)
     /\ last_call' = [ called |-> TRUE, self |-> i, variant |-> variant, flags |-> flags,
                       flags_value |-> lists[flags],
                       self_flags_before |-> lists[cases[i].variant_flags],
                       self_variant_before |-> cases[i].variant,
                       result |-> Len(cases) + 1 ]
     /\ UNCHANGED <<suite_kind, is_windows, statusfile, source, caller_lists, cmd,
                    judge_vars, list_vars>>

\* cases[i].get_command(ctx)
GetCommand(i, ctx) ==
  /\ cmd' = [ called |-> TRUE, self |-> i, ctx |-> ctx,
              result |-> GetCommandOn(lists, statusfile, cases[i], ctx, is_windows) ]
  /\ UNCHANGED <<suite_kind, is_windows, statusfile, source, lists, caller_lists,
                 cases, last_call, judge_vars, list_vars>>

\* Variants: one base test of any class, any chain of create_variant calls.
VariantInit ==
  /\ suite_kind = "inspector"
  /\ expected_file = <<>> /\ stdout = <<>> /\ super_failure = FALSE /\ verdict = "unset"
  /\ listdir_order = [p \in {<<>>} |-> <<>>] /\ tree_dirs = {} /\ tree_files = {} /\ tests = <<>>
  /\ is_windows = FALSE
  /\ statusfile = StatusFileA
  /\ source \in SourceFiles
  /\ \E cls \in Classes :
       /\ lists = NewTestCase(<<>>, cls).lists
       /\ cases = <<NewTestCase(<<>>, cls).obj>>
  /\ caller_lists = {}
  /\ last_call = [called |-> FALSE]
  /\ cmd = [called |-> FALSE]

NextVariant ==
  \/ \E content \in CallerFlagLists :
       /\ Cardinality(caller_lists) < MaxCallerLists
       /\ NewFlagList(content)
  \/ Precompute(1)
  \/ \E i \in 1..Len(cases) : \E variant \in VariantNames : \E flags \in caller_lists :
       /\ Len(cases) < MaxCases
       /\ CreateVariant(i, variant, flags)

SpecVariant == VariantInit /\ [][NextVariant]_vars

\* Commands: a base test, its variants, and get_command on any of them.
CmdInit ==
  /\ suite_kind = "inspector"
  /\ expected_file = <<>> /\ stdout = <<>> /\ super_failure = FALSE /\ verdict = "unset"
  /\ listdir_order = [p \in {<<>>} |-> <<>>] /\ tree_dirs = {} /\ tree_files = {} /\ tests = <<>>
  /\ is_windows \in BOOLEAN
  /\ statusfile \in StatusFiles
  /\ source \in SourceFiles
  /\ \E cls \in Classes :
       /\ lists = NewTestCase(<<>>, cls).lists
       /\ cases = <<NewTestCase(<<>>, cls).obj>>
  /\ caller_lists = {}
  /\ last_call = [called |-> FALSE]
  /\ cmd = [called |-> FALSE]

NextCmd ==
  \/ \E content \in CallerFlagLists \ {<<>>} :
       /\ Cardinality(caller_lists) < MaxCmdCallerLists
       /\ NewFlagList(content)
  \/ Precompute(1)
  \/ \E i \in 1..Len(cases) : \E variant \in VariantNames : \E flags \in caller_lists :
       /\ Len(cases) < MaxCmdCases
       /\ CreateVariant(i, variant, flags)
  \/ \E i \in 1..Len(cases) : \E ctx \in Contexts :
       /\ ~cmd.called          \* one command is built in a run of the model
       /\ GetCommand(i, ctx)

SpecCmd == CmdInit /\ [][NextCmd]_vars

(***************************************************************************)
(* Properties of variants and commands.                                    *)
(***************************************************************************)
FlagsOf(i) == lists[cases[i].variant_flags]

\* C2: after v = t.create_variant(name, flags), t.variant_flags and t.variant
\* have the values they had before the call, v.variant is name, and
\* v.variant_flags is t.variant_flags + flags when t.variant_flags is
\* non-empty and flags otherwise.
C2_CreateVariantNonMutating ==
  last_call.called =>
    LET t == last_call.self
        v == last_call.result
    IN /\ FlagsOf(t) = last_call.self_flags_before
       /\ cases[t].variant = last_call.self_variant_before
       /\ cases[v].variant = last_call.variant
       /\ FlagsOf(v) = IF last_call.self_flags_before # <<>>
                         THEN last_call.self_flags_before \o last_call.flags_value
                         ELSE last_call.flags_value

\* a variant of a variant whose flags were non-empty, made with non-empty flags
C2_Witness ==
  /\ last_call.called
  /\ last_call.self > 1
  /\ last_call.self_flags_before # <<>>
  /\ last_call.flags_value # <<>>
  /\ Len(FlagsOf(last_call.result)) = 2

\* C3 (as claimed): no two distinct TestCase instances hold the same
\* variant_flags list object.
C3_NoSharedFlagList ==
  \A i, j \in 1..Len(cases) :
    i # j => cases[i].variant_flags # cases[j].variant_flags

CmdBuilt == cmd.called /\ cmd.result.raised = "None"
CmdShellFlags == GetShellWithFlags(cases[cmd.self], cmd.ctx, is_windows).shell_flags
CmdParams == SubSeq(cmd.result.args, Len(CmdShellFlags) + 1, Len(cmd.result.args))

\* the source a sentinel argument comes from, 0 for any other argument
SourceRank(arg) ==
  IF StartsWith(arg, Root) THEN 1
  ELSE IF arg = FlagExtra THEN 2
  ELSE IF arg = FlagVariant THEN 3
  ELSE IF arg = FlagStatus THEN 4
  ELSE IF arg = FlagMode THEN 5
  ELSE IF arg = FlagSource THEN 6
  ELSE 0

DashDashOutcomes(outcomes) ==
  LET IsFlag(o) == Len(o) >= 2 /\ o[1] = "-" /\ o[2] = "-"
  IN SelectSeq(outcomes, IsFlag)

\* C1: the argument list of the built command is the shell flags followed by
\* files, extra flags, variant flags, the status-file outcomes starting with
\* '--', mode flags, source flags and suite flags, in this order; the
\* sentinels of the sources appear in this relative order.
C1_CommandAssemblyOrder ==
  CmdBuilt =>
    LET self == cases[cmd.self]
        ctx == cmd.ctx
        args == cmd.result.args
    IN /\ args = CmdShellFlags
                   \o GetFilesParams(self, ctx)
                   \o ctx.extra_flags
                   \o FlagsOf(cmd.self)
                   \o DashDashOutcomes(statusfile[self.variant])
                   \o ctx.mode_flags
                   \o GetSourceFlags(self)
                   \o GetSuiteFlags(self, ctx)
       /\ \A i, j \in 1..Len(args) :
            (SourceRank(args[i]) # 0 /\ SourceRank(args[i]) < SourceRank(args[j]))
              => i < j

\* a command with a sentinel of each of the six sources
C1_Witness ==
  /\ CmdBuilt
  /\ {SourceRank(cmd.result.args[i]) : i \in 1..Len(cmd.result.args)} = 0..6
  /\ OutcomePass \in Range(statusfile[cases[cmd.self].variant])

Occurrences(seq, x) == Cardinality({i \in 1..Len(seq) : seq[i] = x})

\* C4: the timeout of the built command is the base timeout times 4 if
\* '--stress-opt' occurs among the parameters, times 2 if '--noenable-vfp3'
\* occurs among them, times 2.
C4_TimeoutMultipliers ==
  CmdBuilt =>
    cmd.result.timeout =
      cmd.ctx.timeout
        * (IF Occurrences(CmdParams, StressOpt) > 0 THEN 4 ELSE 1)
        * (IF Occurrences(CmdParams, NoEnableVfp3) > 0 THEN 2 ELSE 1)
        * 2

\* base 10 with both flags gives 160, '--stress-opt' occurring twice
C4_Witness ==
  /\ CmdBuilt
  /\ cmd.ctx.timeout = 10
  /\ Occurrences(CmdParams, StressOpt) >= 2
  /\ Occurrences(CmdParams, NoEnableVfp3) = 1
  /\ cmd.result.timeout = 160

====
